---- MODULE Spec2Model ----
(***************************************************************************)
(* Model of class RAGLLM of RAG-LLM_Example1_v3.ipynb: the constructor     *)
(* (__init__) and generate_answer, the two-stage retrieval followed by     *)
(* prompt construction, text generation and answer extraction.             *)
(*                                                                         *)
(* Strings are sequences of one-character strings, so that the f-string    *)
(* of the prompt and str.split are computed character by character.        *)
(* Embedding vectors are integer tuples.  A cosine similarity is kept as   *)
(* the exact fraction sign(d)*d*d / (|a|^2 * |b|^2), d = a.b, which orders *)
(* pairs of vectors exactly as the cosine does (t -> sign(t)*t*t is        *)
(* strictly increasing); floating-point rounding is not modelled.         *)
(* Indices are 1-based where numpy's and Python's are 0-based.             *)
(***************************************************************************)
EXTENDS Integers, Sequences, FiniteSets, TLC

VARIABLES
    pc,                 \* where the program is: Unbuilt, Idle, or a step of generate_answer
    st_model,           \* self.st_model: the encoder, a function from texts to vectors
    external_data,      \* self.external_data: sequence of [topic, context] rows
    titles,             \* self.titles
    title_embeddings,   \* self.title_embeddings
    user_question,      \* locals of generate_answer (<<>> when not in a call)
    question_embedding,
    best_title_index,
    best_title,
    topic_contexts,
    best_context_index,
    best_context,
    prompt,
    answer_text,
    answer,
    exc,                \* the exception in flight ("" when none)
    stages,             \* history: the steps the current call has finished, in order
    n_encode,           \* history: st_model.encode invocations of the current call
    n_generate,         \* history: self.generator invocations of the current call
    seen                \* history: per question, <<best_title, best_context, k>> of the first
                        \* completed call that asked it, the k-th question recorded (from 0)

vars == <<pc, st_model, external_data, titles, title_embeddings, user_question,
          question_embedding, best_title_index, best_title, topic_contexts,
          best_context_index, best_context, prompt, answer_text, answer, exc,
          stages, n_encode, n_generate, seen>>

self_vars == <<st_model, external_data, titles, title_embeddings>>

\* ------------------------------------------------------------------ bounds
MaxCorpus == 3          \* longest corpus (rows of external_data) explored
MaxPieces == 3          \* longest raw output, in pieces, given to the extraction alone

\* ------------------------------------------------------------------ texts
Marker == <<"A", "n", "s", "w", "e", "r", ":", " ">>

TopicA == <<"A">>
TopicF == <<"F">>
Topics == {TopicA, TopicF}

Para1 == <<"p">>
Para2 == Marker \o <<"b">>
Contexts == {Para1, Para2}

Quest1 == <<"q">>
Quest2 == <<"w", "?">>
Questions == {Quest1, Quest2}

Rows == [topic : Topics, context : Contexts]

RECURSIVE SeqsUpTo(_, _)
SeqsUpTo(S, n) ==
    IF n = 0 THEN {<<>>}
    ELSE LET shorter == SeqsUpTo(S, n - 1)
         IN  shorter \cup {Append(s, x) : s \in {t \in shorter : Len(t) = n - 1}, x \in S}

Corpora == SeqsUpTo(Rows, MaxCorpus)

\* What the text-generation model may append to the echoed prompt.
Continuations ==
    { <<" ", "4", "2">>,
      <<"4", "2">>,
      <<" ", "x", "\n">> \o Marker \o <<"7">> }

\* ------------------------------------------------------------- the encoder
Vectors == {<<0, 0>>, <<1, 1>>, <<-1, 0>>}

QuestionVectors == (Quest1 :> <<1, 0>>) @@ (Quest2 :> <<0, 0>>)

\* The encoders explored: deterministic functions of the text.
Encoders == {QuestionVectors @@ f : f \in [Topics \cup Contexts -> Vectors]}

\* st_model.encode(texts): batched, order-preserving.
encode(texts) == [i \in 1..Len(texts) |-> st_model[texts[i]]]

\* ------------------------------------------------------ cosine similarity
RECURSIVE DotFrom(_, _, _)
DotFrom(a, b, i) == IF i > Len(a) THEN 0 ELSE a[i] * b[i] + DotFrom(a, b, i + 1)

Dot(a, b) == DotFrom(a, b, 1)

NormSq(a) == Dot(a, a)

Sgn(x) == IF x > 0 THEN 1 ELSE IF x < 0 THEN -1 ELSE 0

\* One entry of sklearn's cosine_similarity: both rows are L2-normalised
\* first, a zero row being left as it is (its norm is replaced by 1), so a
\* zero vector has similarity 0 to everything.
Cosine(a, b) ==
    IF NormSq(a) = 0 \/ NormSq(b) = 0
    THEN [num |-> 0, den |-> 1]
    ELSE [num |-> Sgn(Dot(a, b)) * Dot(a, b) * Dot(a, b), den |-> NormSq(a) * NormSq(b)]

SimLess(r, s) == r.num * s.den < s.num * r.den

SimEq(r, s) == r.num * s.den = s.num * r.den

\* cosine_similarity(X, Y) for the one-row X used here: the row of similarities.
cosine_similarity(x, Y) == [j \in 1..Len(Y) |-> Cosine(x, Y[j])]

\* np.argmax: the index of the first occurrence of the maximum.
RECURSIVE ArgMaxFrom(_, _, _)
ArgMaxFrom(s, i, best) ==
    IF i > Len(s) THEN best
    ELSE IF SimLess(s[best], s[i]) THEN ArgMaxFrom(s, i + 1, i)
    ELSE ArgMaxFrom(s, i + 1, best)

\* Variant: the last occurrence of the maximum.
RECURSIVE ArgMaxLastFrom(_, _, _)
ArgMaxLastFrom(s, i, best) ==
    IF i > Len(s) THEN best
    ELSE IF SimLess(s[i], s[best]) THEN ArgMaxLastFrom(s, i + 1, best)
    ELSE ArgMaxLastFrom(s, i + 1, i)

argmax_last(s) == ArgMaxLastFrom(s, 2, 1)

argmax(s) == ArgMaxFrom(s, 2, 1)

\* ---------------------------------------------------------------- pandas
\* Series.unique(): the distinct values in order of first appearance.
RECURSIVE UniqueFrom(_, _, _)
UniqueFrom(s, i, acc) ==
    IF i > Len(s) THEN acc
    ELSE IF \E j \in 1..Len(acc) : acc[j] = s[i] THEN UniqueFrom(s, i + 1, acc)
    ELSE UniqueFrom(s, i + 1, Append(acc, s[i]))

\* Variant: the distinct values in sorted order, as np.unique gives them.
unique_sorted(s) ==
    LET u == UniqueFrom(s, 1, <<>>)
    IN  IF Len(u) = 2 /\ u[1] = TopicF /\ u[2] = TopicA THEN <<TopicA, TopicF>> ELSE u

unique(s) == UniqueFrom(s, 1, <<>>)

column_topic(df) == [i \in 1..Len(df) |-> df[i].topic]

\* df[df['topic'] == t]['context'].tolist(): the contexts of the rows whose
\* topic is t, in row order.
RECURSIVE FilterFrom(_, _, _)
FilterFrom(df, t, i) ==
    IF i > Len(df) THEN <<>>
    ELSE IF df[i].topic = t THEN <<df[i].context>> \o FilterFrom(df, t, i + 1)
    ELSE FilterFrom(df, t, i + 1)

contexts_of(df, t) == FilterFrom(df, t, 1)

\* ----------------------------------------------------------------- state
NoText == <<>>

Init ==
    /\ pc = "Unbuilt"
    /\ st_model \in Encoders
    /\ external_data \in Corpora
    /\ titles = <<>>
    /\ title_embeddings = <<>>
    /\ user_question = NoText
    /\ question_embedding = <<>>
    /\ best_title_index = 0
    /\ best_title = NoText
    /\ topic_contexts = <<>>
    /\ best_context_index = 0
    /\ best_context = NoText
    /\ prompt = NoText
    /\ answer_text = NoText
    /\ answer = NoText
    /\ exc = ""
    /\ stages = <<>>
    /\ n_encode = 0
    /\ n_generate = 0
    /\ seen = [q \in Questions |-> <<>>]

locals == <<user_question, question_embedding, best_title_index, best_title,
            topic_contexts, best_context_index, best_context, prompt, answer_text,
            answer>>

\* RAGLLM.__init__
Construct ==
    /\ pc = "Unbuilt"
    /\ titles' = unique(column_topic(external_data))
    /\ title_embeddings' = encode(titles')
    /\ pc' = "Idle"
    /\ UNCHANGED <<st_model, external_data, locals, exc, stages, n_encode, n_generate, seen>>

\* ------------------------------------------------------------ strings
\* The f-string of the prompt: "Context: {p}\n\nQuestion: {q}\nAnswer:".
ContextTag == <<"C", "o", "n", "t", "e", "x", "t", ":", " ">>

QuestionTag == <<"\n", "\n", "Q", "u", "e", "s", "t", "i", "o", "n", ":", " ">>

AnswerTag == <<"\n", "A", "n", "s", "w", "e", "r", ":">>

\* Variant: a space after the final colon.
build_prompt_space(passage, question) ==
    ContextTag \o passage \o QuestionTag \o question \o AnswerTag \o <<" ">>

\* Variant: one line break before "Question: ".
build_prompt_oneline(passage, question) ==
    ContextTag \o passage \o Tail(QuestionTag) \o question \o AnswerTag

build_prompt(passage, question) ==
    ContextTag \o passage \o QuestionTag \o question \o AnswerTag

\* sep occurs in s at position i
OccursAt(s, sep, i) ==
    /\ i >= 1
    /\ i + Len(sep) - 1 <= Len(s)
    /\ SubSeq(s, i, i + Len(sep) - 1) = sep

\* str.split(sep): scan from the left; at the first occurrence cut, and go on
\* behind it (occurrences found this way never overlap).
RECURSIVE split(_, _)
split(s, sep) ==
    LET hits == {i \in 1..Len(s) : OccursAt(s, sep, i)}
    IN  IF hits = {} THEN <<s>>
        ELSE LET i == CHOOSE h \in hits : \A g \in hits : h <= g
             IN  <<SubSeq(s, 1, i - 1)>> \o split(SubSeq(s, i + Len(sep), Len(s)), sep)

\* Variant: what follows the first occurrence, split("Answer: ", 1)[-1].
extract_after_first(raw) ==
    LET hits == {i \in 1..Len(raw) : OccursAt(raw, Marker, i)}
    IN  IF hits = {} THEN raw
        ELSE LET i == CHOOSE h \in hits : \A g \in hits : h <= g
             IN  SubSeq(raw, i + Len(Marker), Len(raw))

\* answer_text.split("Answer: ")[-1]
extract_answer(raw) == LET parts == split(raw, Marker) IN parts[Len(parts)]

\* ------------------------------------------------------- generate_answer
\* The caller invokes ragllm.generate_answer(q).
Call(q) ==
    /\ pc = "Idle"
    /\ pc' = "Retrieving"
    /\ user_question' = q
    /\ UNCHANGED <<self_vars, question_embedding, best_title_index, best_title,
                   topic_contexts, best_context_index, best_context, prompt,
                   answer_text, answer, exc, stages, n_encode, n_generate, seen>>

\* Variant: the embedding of a question answered earlier is used again.
embed_question_stale(q) ==
    IF \E p \in Questions \ {q} : seen[p] # <<>>
    THEN encode(<<CHOOSE p \in Questions \ {q} : seen[p] # <<>> >>)
    ELSE encode(<<q>>)

\* Step 1, first line: the question's embedding (a one-row matrix).
embed_question(q) == encode(<<q>>)

\* Variant: among equally similar titles the last one.
stage_one_last(q_emb) == argmax_last(cosine_similarity(q_emb[1], title_embeddings))

\* Step 1: index of the best matching title.
stage_one(q_emb) == argmax(cosine_similarity(q_emb[1], title_embeddings))

\* Variant: no filter, every context of the corpus.
filter_none(t) == [i \in 1..Len(external_data) |-> external_data[i].context]

\* Variant: the contexts of the title with repeated ones dropped.
filter_unique(t) == unique(contexts_of(external_data, t))

\* Variant: the first row of the corpus is left out of the filter.
filter_tail(t) ==
    IF external_data = <<>> THEN <<>> ELSE contexts_of(Tail(external_data), t)

\* Step 2: the contexts filed under the chosen title.
filter_contexts(t) == contexts_of(external_data, t)

\* Step 3: index of the best matching context among cs.
stage_two(q_emb, cs) == argmax(cosine_similarity(q_emb[1], encode(cs)))

\* Steps 1 to 3.  cosine_similarity rejects a matrix without rows with a
\* ValueError, which leaves generate_answer as an exception.
Retrieve ==
    /\ pc = "Retrieving"
    /\ LET q_emb == embed_question(user_question)
       IN  /\ question_embedding' = q_emb
           /\ IF Len(title_embeddings) = 0
              THEN /\ pc' = "Raised"
                   /\ exc' = "ValueError"
                   /\ n_encode' = n_encode + 1
                   /\ UNCHANGED <<best_title_index, best_title, topic_contexts,
                                  best_context_index, best_context, stages>>
              ELSE LET ti == stage_one(q_emb)
                       cs == filter_contexts(titles[ti])
                   IN  /\ best_title_index' = ti
                       /\ best_title' = titles[ti]
                       /\ topic_contexts' = cs
                       /\ n_encode' = n_encode + 2
                       /\ IF Len(cs) = 0
                          THEN /\ pc' = "Raised"
                               /\ exc' = "ValueError"
                               /\ UNCHANGED <<best_context_index, best_context, stages>>
                          ELSE /\ best_context_index' = stage_two(q_emb, cs)
                               /\ best_context' = cs[best_context_index']
                               /\ pc' = "Prompting"
                               /\ stages' = Append(stages, "retrieve")
                               /\ UNCHANGED exc
    /\ UNCHANGED <<self_vars, user_question, prompt, answer_text, answer,
                   n_generate, seen>>

\* Variant: the generator is left out and the prompt taken as its output.
BuildPromptSkip ==
    /\ pc = "Prompting"
    /\ prompt' = build_prompt(best_context, user_question)
    /\ answer_text' = prompt'
    /\ pc' = "Extracting"
    /\ stages' = Append(stages, "build")
    /\ UNCHANGED <<self_vars, user_question, question_embedding, best_title_index,
                   best_title, topic_contexts, best_context_index, best_context,
                   answer, exc, n_encode, n_generate, seen>>

\* Variant: the prompt is built around the first context of the topic.
BuildPromptFirst ==
    /\ pc = "Prompting"
    /\ prompt' = build_prompt(topic_contexts[1], user_question)
    /\ pc' = "Generating"
    /\ stages' = Append(stages, "build")
    /\ UNCHANGED <<self_vars, user_question, question_embedding, best_title_index,
                   best_title, topic_contexts, best_context_index, best_context,
                   answer_text, answer, exc, n_encode, n_generate, seen>>

\* Step 4, first line: the prompt.
BuildPrompt ==
    /\ pc = "Prompting"
    /\ prompt' = build_prompt(best_context, user_question)
    /\ pc' = "Generating"
    /\ stages' = Append(stages, "build")
    /\ UNCHANGED <<self_vars, user_question, question_embedding, best_title_index,
                   best_title, topic_contexts, best_context_index, best_context,
                   answer_text, answer, exc, n_encode, n_generate, seen>>

\* self.generator(prompt, max_length=300)[0]['generated_text']: the
\* text-generation pipeline returns the prompt followed by what it generated.
Generate ==
    /\ pc = "Generating"
    /\ \E c \in Continuations : answer_text' = prompt \o c
    /\ n_generate' = n_generate + 1
    /\ pc' = "Extracting"
    /\ stages' = Append(stages, "generate")
    /\ UNCHANGED <<self_vars, user_question, question_embedding, best_title_index,
                   best_title, topic_contexts, best_context_index, best_context,
                   prompt, answer, exc, n_encode, seen>>

\* The generator call raises; generate_answer has no handler, so the
\* generator's own exception leaves the call as it is, under no other name.
GenerateFails ==
    /\ pc = "Generating"
    /\ n_generate' = n_generate + 1
    /\ pc' = "Raised"
    /\ exc' = "GeneratorFailure"
    /\ UNCHANGED <<self_vars, locals, stages, n_encode, seen>>

\* answer = answer_text.split("Answer: ")[-1]
Extract ==
    /\ pc = "Extracting"
    /\ answer' = extract_answer(answer_text)
    /\ pc' = "Returning"
    /\ stages' = Append(stages, "extract")
    /\ UNCHANGED <<self_vars, user_question, question_embedding, best_title_index,
                   best_title, topic_contexts, best_context_index, best_context,
                   prompt, answer_text, exc, n_encode, n_generate, seen>>

\* Variant: the embedding of the question outlives the call.
DropFrameKeepsQuery ==
    /\ user_question' = NoText
    /\ question_embedding' = question_embedding
    /\ best_title_index' = 0
    /\ best_title' = NoText
    /\ topic_contexts' = <<>>
    /\ best_context_index' = 0
    /\ best_context' = NoText
    /\ prompt' = NoText
    /\ answer_text' = NoText
    /\ answer' = NoText
    /\ exc' = ""
    /\ stages' = <<>>
    /\ n_encode' = 0
    /\ n_generate' = 0

\* The frame of generate_answer is gone once it returns or raises.
DropFrame ==
    /\ user_question' = NoText
    /\ question_embedding' = <<>>
    /\ best_title_index' = 0
    /\ best_title' = NoText
    /\ topic_contexts' = <<>>
    /\ best_context_index' = 0
    /\ best_context' = NoText
    /\ prompt' = NoText
    /\ answer_text' = NoText
    /\ answer' = NoText
    /\ exc' = ""
    /\ stages' = <<>>
    /\ n_encode' = 0
    /\ n_generate' = 0

\* What the history keeps of a completed call: the result of the first call
\* that asked each question, and how many questions were recorded before it.
Record ==
    IF seen[user_question] = <<>>
    THEN [seen EXCEPT ![user_question] =
             <<best_title, best_context,
               Cardinality({q \in Questions : seen[q] # <<>>})>>]
    ELSE seen

\* return answer
ReturnStep(track) ==
    /\ pc = "Returning"
    /\ pc' = "Idle"
    /\ DropFrame
    /\ seen' = IF track THEN Record ELSE seen
    /\ UNCHANGED self_vars

Return == ReturnStep(FALSE)

ReturnTracked == ReturnStep(TRUE)

\* The exception reaches the caller.
Propagate ==
    /\ pc = "Raised"
    /\ pc' = "Idle"
    /\ DropFrame
    /\ UNCHANGED <<self_vars, seen>>

Next ==
    \/ Construct
    \/ \E q \in Questions : Call(q)
    \/ Retrieve
    \/ BuildPrompt
    \/ Generate
    \/ GenerateFails
    \/ Extract
    \/ Return
    \/ Propagate

Spec == Init /\ [][Next]_vars

\* The same program with the history of completed calls kept.
NextTracked ==
    \/ Construct
    \/ \E q \in Questions : Call(q)
    \/ Retrieve
    \/ BuildPrompt
    \/ Generate
    \/ GenerateFails
    \/ Extract
    \/ ReturnTracked
    \/ Propagate

SpecTracked == Init /\ [][NextTracked]_vars

\* --------------------------------------------- the extraction on its own
\* Raw generator outputs handed to line 389 directly: up to MaxPieces pieces
\* put one after the other, and the two examples of the specification.
Pieces ==
    { Marker,
      <<"A", "n", "s", "w", "e", "r", ":">>,
      <<" ">>,
      <<"4", "2">>,
      <<"\n">> }

RECURSIVE Flatten(_)
Flatten(ps) == IF ps = <<>> THEN <<>> ELSE Head(ps) \o Flatten(Tail(ps))

NoMarkerHere ==
    <<"n", "o", " ", "m", "a", "r", "k", "e", "r", " ", "h", "e", "r", "e">>

ContextEtc42 ==
    <<"C", "o", "n", "t", "e", "x", "t", ".", ".", ".", "\n">> \o Marker \o <<"4", "2">>

RawOutputs ==
    {Flatten(ps) : ps \in SeqsUpTo(Pieces, MaxPieces)} \cup {NoMarkerHere, ContextEtc42}

InitExtract ==
    /\ pc = "Extracting"
    /\ answer_text \in RawOutputs
    /\ st_model = QuestionVectors
    /\ external_data = <<>>
    /\ titles = <<>>
    /\ title_embeddings = <<>>
    /\ user_question = NoText
    /\ question_embedding = <<>>
    /\ best_title_index = 0
    /\ best_title = NoText
    /\ topic_contexts = <<>>
    /\ best_context_index = 0
    /\ best_context = NoText
    /\ prompt = NoText
    /\ answer = NoText
    /\ exc = ""
    /\ stages = <<>>
    /\ n_encode = 0
    /\ n_generate = 0
    /\ seen = [q \in Questions |-> <<>>]

NextExtract == Extract \/ Return

SpecExtract == InitExtract /\ [][NextExtract]_vars

\* ------------------------------------------------ the filter on its own
\* Line 376 applied to any topic of Topics, in the corpus or not.
PlainEncoder == QuestionVectors @@ [x \in Topics \cup Contexts |-> <<1, 1>>]

InitFilter ==
    /\ pc = "Filtering"
    /\ st_model = PlainEncoder
    /\ external_data \in Corpora
    /\ titles = unique(column_topic(external_data))
    /\ title_embeddings = encode(titles)
    /\ best_title \in Topics
    /\ user_question = NoText
    /\ question_embedding = <<>>
    /\ best_title_index = 0
    /\ topic_contexts = <<>>
    /\ best_context_index = 0
    /\ best_context = NoText
    /\ prompt = NoText
    /\ answer_text = NoText
    /\ answer = NoText
    /\ exc = ""
    /\ stages = <<>>
    /\ n_encode = 0
    /\ n_generate = 0
    /\ seen = [q \in Questions |-> <<>>]

\* topic_contexts = external_data[external_data['topic'] == best_title]['context'].tolist()
ApplyFilter ==
    /\ pc = "Filtering"
    /\ topic_contexts' = filter_contexts(best_title)
    /\ pc' = "Filtered"
    /\ UNCHANGED <<self_vars, user_question, question_embedding, best_title_index,
                   best_title, best_context_index, best_context, prompt,
                   answer_text, answer, exc, stages, n_encode, n_generate, seen>>

NextFilter == ApplyFilter

SpecFilter == InitFilter /\ [][NextFilter]_vars

\* ------------------------------------------------ the prompt on its own
\* Line 386 applied to passages and questions made of up to MaxPieces pieces,
\* the words of the template among them.
PromptPieces ==
    { ContextTag,
      <<"\n", "\n", "Q", "u", "e", "s", "t", "i", "o", "n", ":">>,
      <<"A", "n", "s", "w", "e", "r", ":">>,
      <<"\n">>,
      <<"x">> }

PassageInputs == {Flatten(ps) : ps \in SeqsUpTo(PromptPieces, MaxPieces)}

QuestionInputs ==
    {Quest1, <<"\n", "\n", "Q", "u", "e", "s", "t", "i", "o", "n", ":", " ", "z">>}

InitPrompt ==
    /\ pc = "Prompting"
    /\ best_context \in PassageInputs
    /\ user_question \in QuestionInputs
    /\ st_model = PlainEncoder
    /\ external_data = <<>>
    /\ titles = <<>>
    /\ title_embeddings = <<>>
    /\ question_embedding = <<>>
    /\ best_title_index = 0
    /\ best_title = NoText
    /\ topic_contexts = <<>>
    /\ best_context_index = 0
    /\ prompt = NoText
    /\ answer_text = NoText
    /\ answer = NoText
    /\ exc = ""
    /\ stages = <<"retrieve">>
    /\ n_encode = 0
    /\ n_generate = 0
    /\ seen = [q \in Questions |-> <<>>]

NextPrompt == BuildPrompt

SpecPrompt == InitPrompt /\ [][NextPrompt]_vars

\* ================================================================ claims
\* The retrieval of the current call has finished.
Retrieved == Len(stages) >= 1

\* The similarities of the texts ts to the vector q, as the encoder embeds them.
Sims(q, ts) == [j \in 1..Len(ts) |-> Cosine(q, st_model[ts[j]])]

\* k is the first index at which s is largest.
FirstMax(s, k) ==
    /\ k \in 1..Len(s)
    /\ \A j \in 1..Len(s) : ~SimLess(s[k], s[j])
    /\ \A j \in 1..(k - 1) : SimLess(s[j], s[k])

IsPrefix(a, b) == Len(a) <= Len(b) /\ SubSeq(b, 1, Len(a)) = a

MarkerHits(raw) == {i \in 1..Len(raw) : OccursAt(raw, Marker, i)}

\* C1: the passage retrieved is the context of some row of the corpus whose
\* topic is the topic selected in stage one of the same call.
C1_TopicRestriction ==
    Retrieved =>
        \E i \in 1..Len(external_data) :
            /\ external_data[i].topic = best_title
            /\ external_data[i].context = best_context

\* C1 witness: a retrieval in which a row of another topic holds a passage
\* strictly closer to the question than the passage returned.
C1_Witness ==
    /\ pc = "Prompting"
    /\ \E i \in 1..Len(external_data) :
           /\ external_data[i].topic # best_title
           /\ SimLess(Cosine(question_embedding[1], st_model[best_context]),
                      Cosine(question_embedding[1], st_model[external_data[i].context]))

\* C2: at both stages the candidate selected has the largest cosine
\* similarity to the question among the candidates of the stage, and among
\* those of largest similarity it is the one of smallest index.
C2_FirstMaximum ==
    Retrieved =>
        LET q == st_model[user_question]
        IN  /\ FirstMax(Sims(q, titles), best_title_index)
            /\ best_title = titles[best_title_index]
            /\ FirstMax(Sims(q, topic_contexts), best_context_index)
            /\ best_context = topic_contexts[best_context_index]

\* C2 witness: two topics tie at a non-zero similarity, and two different
\* passages of the selected topic tie as well.
C2_Witness ==
    /\ pc = "Prompting"
    /\ Len(titles) = 2
    /\ LET q == question_embedding[1]
           ts == Sims(q, titles)
           cs == Sims(q, topic_contexts)
       IN  /\ SimEq(ts[1], ts[2])
           /\ ts[1].num # 0
           /\ Len(topic_contexts) >= 2
           /\ topic_contexts[1] # topic_contexts[2]
           /\ SimEq(cs[1], cs[2])
           /\ cs[1].num # 0

\* C3: the prompt built is exactly "Context: " + passage + "\n\nQuestion: "
\* + question + "\nAnswer:", its last character the colon; the step that
\* builds it calls neither the encoder nor the generator and changes nothing
\* but the prompt.
C3_PromptExact ==
    [][pc = "Prompting" =>
          LET p == best_context
              q == user_question
              n == Len(p)
              m == Len(q)
          IN  /\ Len(prompt') = 9 + n + 12 + m + 8
              /\ SubSeq(prompt', 1, 9) = <<"C", "o", "n", "t", "e", "x", "t", ":", " ">>
              /\ SubSeq(prompt', 10, 9 + n) = p
              /\ SubSeq(prompt', 10 + n, 21 + n)
                     = <<"\n", "\n", "Q", "u", "e", "s", "t", "i", "o", "n", ":", " ">>
              /\ SubSeq(prompt', 22 + n, 21 + n + m) = q
              /\ SubSeq(prompt', 22 + n + m, 29 + n + m)
                     = <<"\n", "A", "n", "s", "w", "e", "r", ":">>
              /\ prompt'[Len(prompt')] = ":"
              /\ n_encode' = n_encode
              /\ n_generate' = n_generate
              /\ UNCHANGED <<self_vars, user_question, question_embedding,
                             best_title_index, best_title, topic_contexts,
                             best_context_index, best_context, answer_text,
                             answer, exc, seen>>]_vars

\* C3 witness: a prompt built around the passage that itself holds "Answer: ".
C3_Witness ==
    /\ pc = "Generating"
    /\ best_context = Para2
    /\ user_question = Quest2
    /\ prompt # NoText

\* What follows the last occurrence of "Answer: " in raw; raw when there is none.
AfterLastMarker(raw) ==
    IF MarkerHits(raw) = {} THEN raw
    ELSE LET last == CHOOSE h \in MarkerHits(raw) : \A g \in MarkerHits(raw) : g <= h
         IN  SubSeq(raw, last + Len(Marker), Len(raw))

\* C4: the answer extracted is what follows the last "Answer: " of the raw
\* output, and the raw output itself when it holds no "Answer: "; "no marker
\* here" comes back unchanged and "Context...\nAnswer: 42" gives "42".
C4_ExtractLastSegment ==
    pc = "Returning" =>
        /\ answer = AfterLastMarker(answer_text)
        /\ (answer_text = NoMarkerHere => answer = NoMarkerHere)
        /\ (answer_text = ContextEtc42 => answer = <<"4", "2">>)

\* C4 witness: a raw output with two markers, extracted to its last segment.
C4_Witness ==
    /\ pc = "Returning"
    /\ Cardinality(MarkerHits(answer_text)) = 2
    /\ answer = <<"4", "2">>

\* C5: when the raw output is the prompt followed by a continuation, the
\* marker is found in it and the answer lies wholly behind the echoed prompt.
C5_MarkerBehindPrompt ==
    (pc = "Returning" /\ IsPrefix(prompt, answer_text)) =>
        /\ MarkerHits(answer_text) # {}
        /\ Len(answer) <= Len(answer_text) - Len(prompt)

\* The state of the pipeline as the specification names it; line 390, the
\* return of the extracted answer, closes the extraction.
StateOf(p) == IF p = "Returning" THEN "Extracting" ELSE p

Following(a) ==
    CASE a = "Idle" -> "Retrieving"
      [] a = "Retrieving" -> "Prompting"
      [] a = "Prompting" -> "Generating"
      [] a = "Generating" -> "Extracting"
      [] a = "Extracting" -> "Idle"
      [] OTHER -> "Idle"

\* C6: a call moves Idle, Retrieving, Prompting, Generating, Extracting, Idle
\* in this order, no state skipped or entered again (an exception apart, which
\* ends the call); a call about to return has run retrieval, prompt building,
\* generation and extraction once each, in this order, and returns to Idle.
C6_StageOrder ==
    /\ [](pc = "Returning" =>
            /\ stages = <<"retrieve", "build", "generate", "extract">>
            /\ n_generate = 1)
    /\ [][LET a == StateOf(pc)
              b == StateOf(pc')
          IN  (a # b /\ a \notin {"Unbuilt", "Raised"} /\ b # "Raised")
                  => b = Following(a)]_vars

\* C6 witness: a call that has gone through all four steps and is returning.
C6_Witness ==
    /\ pc = "Returning"
    /\ stages = <<"retrieve", "build", "generate", "extract">>
    /\ answer = <<"4", "2">>

\* C7: the prompt the generator is given is the one built from the passage
\* retrieved in this call for this question and from the question: its
\* context field is that passage and nothing else, and the generator's
\* output starts with it.
C7_PromptOfRetrieved ==
    (n_generate = 1 \/ pc = "Generating") =>
        /\ FirstMax(Sims(st_model[user_question], topic_contexts), best_context_index)
        /\ prompt = build_prompt(topic_contexts[best_context_index], user_question)
        /\ Len(prompt) = 29 + Len(best_context) + Len(user_question)
        /\ SubSeq(prompt, 10, 9 + Len(best_context)) = best_context
        /\ (pc \in {"Extracting", "Returning"} => IsPrefix(prompt, answer_text))

\* C7 witness: the generator has run on a prompt whose passage is the second
\* of two different passages of the topic.
C7_Witness ==
    /\ pc = "Extracting"
    /\ best_context_index = 2
    /\ topic_contexts[1] # topic_contexts[2]

\* C8: a question asked again gets the topic and the passage it got in the
\* earlier call, whatever was asked in between.
C8_Deterministic ==
    (Retrieved /\ seen[user_question] # <<>>) =>
        /\ seen[user_question][1] = best_title
        /\ seen[user_question][2] = best_context

\* C8 witness: the first question is retrieved again after a call with the
\* other question has completed in between, two topics being equally similar.
C8_Witness ==
    /\ pc = "Prompting"
    /\ user_question = Quest1
    /\ seen[Quest1] # <<>>
    /\ seen[Quest2] # <<>>
    /\ seen[Quest1][3] = 0
    /\ Len(titles) = 2
    /\ SimEq(Sims(question_embedding[1], titles)[1], Sims(question_embedding[1], titles)[2])

\* The context of the first row of df whose topic is t.
FirstContextOf(df, t) ==
    df[CHOOSE i \in 1..Len(df) :
           df[i].topic = t /\ \A j \in 1..(i - 1) : df[j].topic # t].context

\* C9: a question embedded as the zero vector has similarity 0 to every
\* candidate; its retrieval (on a corpus with rows) raises nothing and gives
\* the first topic and the first passage of that topic in corpus order.
C9_ZeroQuery ==
    (/\ user_question \in Questions
     /\ NormSq(st_model[user_question]) = 0
     /\ pc # "Retrieving"
     /\ external_data # <<>>) =>
        /\ Retrieved
        /\ exc # "ValueError"
        /\ \A j \in 1..Len(titles) : Sims(question_embedding[1], titles)[j].num = 0
        /\ \A j \in 1..Len(topic_contexts) :
               Sims(question_embedding[1], topic_contexts)[j].num = 0
        /\ best_title_index = 1
        /\ best_title = external_data[1].topic
        /\ best_context_index = 1
        /\ best_context = FirstContextOf(external_data, best_title)

\* C9 witness: a zero-vector question retrieved over two topics whose
\* embeddings are not zero, two different passages under the first.
C9_Witness ==
    /\ pc = "Prompting"
    /\ NormSq(question_embedding[1]) = 0
    /\ Len(titles) = 2
    /\ NormSq(title_embeddings[1]) # 0
    /\ title_embeddings[1] # title_embeddings[2]
    /\ Len(topic_contexts) = 2
    /\ topic_contexts[1] # topic_contexts[2]

\* C10: from a corpus without rows no object is constructed.
C10_EmptyCorpusRejected == external_data = <<>> => pc = "Unbuilt"

\* The indices of the rows of df whose topic is t.
RowsOf(df, t) == {i \in 1..Len(df) : df[i].topic = t}

\* The k-th smallest element of the set of indices I.
Kth(I, k) == CHOOSE i \in I : Cardinality({j \in I : j <= i}) = k

\* cs holds the contexts of the rows of df with topic t, one entry per row,
\* in row order.
IsContextsOf(cs, df, t) ==
    /\ Len(cs) = Cardinality(RowsOf(df, t))
    /\ \A k \in 1..Len(cs) : cs[k] = df[Kth(RowsOf(df, t), k)].context

\* C11: for every topic of the corpus the filter of step 2 gives the contexts
\* of exactly the rows with that topic, repeated ones kept, in row order; the
\* candidates of stage two are these for the selected topic.
C11_ContextsOfTopic ==
    /\ pc # "Unbuilt" =>
           \A k \in 1..Len(titles) :
               IsContextsOf(filter_contexts(titles[k]), external_data, titles[k])
    /\ Retrieved => IsContextsOf(topic_contexts, external_data, best_title)

\* C11 witness: the selected topic has the same passage in two rows, with a
\* row of another topic between them.
C11_Witness ==
    /\ pc = "Prompting"
    /\ Len(external_data) = 3
    /\ external_data[2].topic # best_title
    /\ Len(topic_contexts) = 2
    /\ topic_contexts[1] = topic_contexts[2]

FirstRow(df, t) == CHOOSE i \in RowsOf(df, t) : \A j \in RowsOf(df, t) : i <= j

\* C13: once the object is constructed, titles holds every topic of the
\* corpus once, in the order of first appearance, title_embeddings has one
\* row per title, row i the embedding of title i, and neither is changed by
\* any later step.
C13_TitlesAndRows ==
    /\ [](pc # "Unbuilt" =>
            /\ Len(titles) = Cardinality({external_data[i].topic : i \in 1..Len(external_data)})
            /\ \A i \in 1..Len(titles) : RowsOf(external_data, titles[i]) # {}
            /\ \A i, j \in 1..Len(titles) :
                   i < j => FirstRow(external_data, titles[i]) < FirstRow(external_data, titles[j])
            /\ Len(title_embeddings) = Len(titles)
            /\ \A i \in 1..Len(titles) : title_embeddings[i] = st_model[titles[i]])
    /\ [][pc # "Unbuilt" => UNCHANGED <<titles, title_embeddings>>]_vars

\* C13 witness: a query is returning on a corpus whose second topic comes
\* first in the rows and again after the other one, the two embedded differently.
C13_Witness ==
    /\ pc = "Returning"
    /\ Len(external_data) = 3
    /\ titles = <<TopicF, TopicA>>
    /\ external_data[3].topic = TopicF
    /\ title_embeddings[1] # title_embeddings[2]

\* Nothing of a call is held: the locals of generate_answer have no value.
NoFrame ==
    /\ user_question = NoText
    /\ question_embedding = <<>>
    /\ best_title_index = 0
    /\ best_title = NoText
    /\ topic_contexts = <<>>
    /\ best_context_index = 0
    /\ best_context = NoText
    /\ prompt = NoText
    /\ answer_text = NoText
    /\ answer = NoText
    /\ exc = ""

\* C14: no step after construction changes the encoder, the corpus, the
\* titles or their embeddings; between calls nothing of an earlier query is
\* held and the fields are what the constructor computed; a question asked
\* again is given the result it was given before.
C14_NothingKept ==
    /\ [][pc # "Unbuilt" => UNCHANGED self_vars]_vars
    /\ [](pc = "Idle" =>
            /\ NoFrame
            /\ titles = UniqueFrom(column_topic(external_data), 1, <<>>)
            /\ title_embeddings = [i \in 1..Len(titles) |-> st_model[titles[i]]])
    /\ []((Retrieved /\ seen[user_question] # <<>>) =>
            <<seen[user_question][1], seen[user_question][2]>> = <<best_title, best_context>>)

\* C14 witness: the pipeline is idle after completed calls for both questions.
C14_Witness ==
    /\ pc = "Idle"
    /\ seen[Quest1] # <<>>
    /\ seen[Quest2] # <<>>
    /\ Len(titles) = 2
    /\ NoFrame

\* C15: a failure of the generator leaves the call as a GenerationError, the
\* generator having been invoked once, the extraction not run and no answer set.
C15_GenerationError ==
    (pc = "Raised" /\ n_generate >= 1) =>
        /\ exc = "GenerationError"
        /\ n_generate = 1
        /\ stages = <<"retrieve", "build">>
        /\ answer = NoText

ContextLit == <<"C", "o", "n", "t", "e", "x", "t", ":", " ">>

QuestionLit == <<"\n", "\n", "Q", "u", "e", "s", "t", "i", "o", "n", ":">>

Contains(s, sub) == \E i \in 1..Len(s) : OccursAt(s, sub, i)

\* The text of pr behind its first "Context: " and before the first
\* "\n\nQuestion:" that follows (to the end of pr when there is none).
Recovered(pr) ==
    LET cs    == {i \in 1..Len(pr) : OccursAt(pr, ContextLit, i)}
        start == IF cs = {} THEN 1
                 ELSE (CHOOSE i \in cs : \A j \in cs : i <= j) + Len(ContextLit)
        qs    == {i \in start..Len(pr) : OccursAt(pr, QuestionLit, i)}
        stop  == IF qs = {} THEN Len(pr) + 1 ELSE CHOOSE i \in qs : \A j \in qs : i <= j
    IN  SubSeq(pr, start, stop - 1)

\* C16 as stated: for every passage, also one that holds "Context: ",
\* "\n\nQuestion:" or "Answer:", the passage is recovered from the prompt.
C16_RoundTripAll == pc = "Generating" => Recovered(prompt) = best_context

\* C16 amended: the passage is recovered from the prompt whenever it does not
\* hold "\n\nQuestion:"; it may hold "Context: " and "Answer:".
C16_RoundTrip ==
    (pc = "Generating" /\ ~Contains(best_context, QuestionLit)) =>
        Recovered(prompt) = best_context

\* C16 witness: a prompt built around a passage that holds "Context: " and
\* "Answer:" and ends in a line break, with a question that holds "\n\nQuestion:".
C16_Witness ==
    /\ pc = "Generating"
    /\ Contains(best_context, ContextLit)
    /\ Contains(best_context, <<"A", "n", "s", "w", "e", "r", ":">>)
    /\ best_context[Len(best_context)] = "\n"
    /\ Contains(user_question, QuestionLit)
    /\ Recovered(prompt) = best_context

\* The corpora that differ from df at most in the contexts of rows whose
\* topic is not t.
Variations(df, t) ==
    { [i \in 1..Len(df) |->
          IF df[i].topic = t THEN df[i] ELSE [topic |-> df[i].topic, context |-> f[i]]] :
      f \in [1..Len(df) -> Contexts] }

\* What steps 1 to 3 give for the question of the current call on corpus d,
\* a corpus with the topic column of external_data.
ResultOn(d) ==
    LET t  == titles[stage_one(question_embedding)]
        cs == contexts_of(d, t)
    IN  <<t, cs[stage_two(question_embedding, cs)]>>

\* C17: the passage returned is the first best one among the passages of the
\* selected topic, and it is the same whatever the rows of the other topics
\* hold, a passage closer to the question included.
C17_OnlySelectedTopic ==
    Retrieved =>
        /\ FirstMax(Sims(question_embedding[1], contexts_of(external_data, best_title)),
                    best_context_index)
        /\ \A d \in Variations(external_data, best_title) :
               ResultOn(d) = <<best_title, best_context>>

\* C17 witness: a row of a topic not selected holds a passage strictly closer
\* to the question than every passage of the selected topic, which has two rows.
C17_Witness ==
    /\ pc = "Prompting"
    /\ Len(topic_contexts) = 2
    /\ \E i \in 1..Len(external_data) :
           /\ external_data[i].topic # best_title
           /\ \A k \in 1..Len(topic_contexts) :
                  SimLess(Cosine(question_embedding[1], st_model[topic_contexts[k]]),
                          Cosine(question_embedding[1], st_model[external_data[i].context]))

\* C18: on a corpus with rows every title has at least one context, so no
\* retrieval raises, and a finished retrieval has a non-empty candidate list,
\* both selected indices within their lists, and a passage of the corpus.
C18_PassageAlwaysFound ==
    (pc # "Unbuilt" /\ external_data # <<>>) =>
        /\ Len(titles) >= 1
        /\ \A k \in 1..Len(titles) : Len(filter_contexts(titles[k])) >= 1
        /\ exc # "ValueError"
        /\ (pc \notin {"Idle", "Retrieving"} => Retrieved)
        /\ Retrieved =>
               /\ best_title_index \in 1..Len(titles)
               /\ Len(topic_contexts) >= 1
               /\ best_context_index \in 1..Len(topic_contexts)
               /\ \E i \in 1..Len(external_data) : external_data[i].context = best_context

\* C18 witness: the second of two titles is selected and has a single row.
C18_Witness ==
    /\ pc = "Prompting"
    /\ Len(titles) = 2
    /\ best_title_index = 2
    /\ Len(topic_contexts) = 1
    /\ external_data[1].topic # best_title

====
